---- MODULE Spec2Model ----
(***************************************************************************)
(* Nice Flor-S blind controller (cover.py).                                *)
(*                                                                         *)
(* Two threads run the controller: the main thread executes start(), i.e.  *)
(* it launches the MQTT loop thread and then performs the startup          *)
(* close_blind(); the MQTT loop thread runs _on_mqtt_connect and           *)
(* _on_mqtt_message, one callback at a time.  Every statement of the       *)
(* command path that reads or writes shared controller state is one step.  *)
(* An exception that leaves a callback ends the MQTT loop thread (the      *)
(* client is created without suppress_exceptions); an exception that       *)
(* leaves start() ends the process through main()'s finally clause.        *)
(***************************************************************************)
EXTENDS Integers, Sequences, FiniteSets, TLC

(* ------------------------------ bounds -------------------------------- *)

\* no new inbound message is taken once this many bursts have been started
MaxBursts == 5

(* ----------------------- program constants ---------------------------- *)

BUTTON_ID_OPEN == 1
BUTTON_ID_STOP == 2
BUTTON_ID_CLOSE == 4

\* config.get(CONF_START_CODE, 0x111)
DefaultStartCode == 273

\* self.current_position = 100 in __init__
InitialPosition == 100

\* range(1, 7) in _send_repeated: repeats 1..6
FirstRepeat == 1
RepeatStop == 7

(* ------------------ text <-> integer conversions ---------------------- *)

Digits == <<"0", "1", "2", "3", "4", "5", "6", "7", "8", "9">>

IsDigit(c) == \E i \in 1..10 : Digits[i] = c

DigitVal(c) == (CHOOSE i \in 1..10 : Digits[i] = c) - 1

\* str(n) for n >= 0
RECURSIVE StrNat(_)
StrNat(n) ==
    IF n < 10 THEN <<Digits[n + 1]>>
    ELSE StrNat(n \div 10) \o <<Digits[(n % 10) + 1]>>

\* str(n) of a Python int
Str(n) == IF n < 0 THEN <<"-">> \o StrNat(0 - n) ELSE StrNat(n)

\* value of a non-empty all-digit text
RECURSIVE DigitsValue(_)
DigitsValue(s) ==
    IF s = <<>> THEN 0
    ELSE DigitsValue(SubSeq(s, 1, Len(s) - 1)) * 10 + DigitVal(s[Len(s)])

AllDigits(s) == Len(s) > 0 /\ \A i \in 1..Len(s) : IsDigit(s[i])

\* int(text): an optional sign followed by decimal digits; anything else
\* raises ValueError (ok = FALSE)
IntParse(s) ==
    IF s # <<>> /\ s[1] \in {"-", "+"}
    THEN LET body == SubSeq(s, 2, Len(s))
         IN  IF AllDigits(body)
             THEN [ok |-> TRUE,
                   val |-> IF s[1] = "-" THEN 0 - DigitsValue(body)
                           ELSE DigitsValue(body)]
             ELSE [ok |-> FALSE, val |-> 0]
    ELSE IF AllDigits(s) THEN [ok |-> TRUE, val |-> DigitsValue(s)]
         ELSE [ok |-> FALSE, val |-> 0]

(* ------------------------- RFDevice, pulse trains --------------------- *)

TX_PULSE_SHORT == 500
TX_PULSE_LONG == 1000
TX_PULSE_SYNC == 1500
TX_PULSE_GAP == 15000
TX_LENGTH == 52

\* pigpio.pulse(gpio_on, gpio_off, delay); "gpio" is the transmitter pin,
\* "none" is GPIO_NONE
Pulse(gpio_on, gpio_off, delay) ==
    [gpio_on |-> gpio_on, gpio_off |-> gpio_off, delay |-> delay]

tx_l0 == << Pulse("gpio", "none", TX_PULSE_SHORT),
            Pulse("none", "gpio", TX_PULSE_LONG) >>

tx_l1 == << Pulse("gpio", "none", TX_PULSE_LONG),
            Pulse("none", "gpio", TX_PULSE_SHORT) >>

tx_sync == << Pulse("gpio", "none", TX_PULSE_SYNC),
              Pulse("none", "gpio", TX_PULSE_SYNC) >>

tx_gap == << Pulse("none", "gpio", TX_PULSE_GAP) >>

Zeros(n) == [i \in 1..n |-> "0"]

\* A frame is a number below 2^52, beyond the 32-bit integers of TLC: it is
\* held as its binary numeral, most significant digit first and without
\* leading zeros, which is the digit string format(code, "b") produces.
BinOnes(n) == [i \in 1..n |-> "1"]
BinPower(n) == [i \in 1..n |-> IF i = 1 THEN "1" ELSE "0"]
BinAlternate(n) == [i \in 1..n |-> IF i % 2 = 1 THEN "1" ELSE "0"]

\* the frames tx_code is given: 0, and for every length up to tx_length the
\* largest, the smallest and an alternating number of that length
TxCodes ==
    {<<"0">>} \cup
    UNION {{BinOnes(n), BinPower(n), BinAlternate(n)} : n \in 1..TX_LENGTH}

\* format(code, "#0{width}b"): the prefix "0b", then the digits, with zeros
\* between them until the text, prefix included, is width characters long
FormatBin(digits, width) ==
    <<"0", "b">> \o
    Zeros(IF Len(digits) + 2 < width THEN width - 2 - Len(digits) ELSE 0) \o
    digits

\* text[2:]
DropPrefix(text) == SubSeq(text, 3, Len(text))

NoTx == [pc |-> "none", code |-> <<>>, rawcode |-> <<>>, bit |-> 0, wf |-> <<>>]

(* --------------------------- inbound messages ------------------------- *)

Topics == {"set", "set_position"}

OPEN == <<"O", "P", "E", "N">>
CLOSE == <<"C", "L", "O", "S", "E">>
STOP == <<"S", "T", "O", "P">>

\* a payload is a sequence of bytes; an ASCII byte is written as its
\* character, and ByteFF is the byte 0xFF, which no UTF-8 text contains
ByteFF == "xFF"

\* message.payload.decode(): strict UTF-8, UnicodeDecodeError (ok = FALSE)
\* on a byte sequence that is not UTF-8; ASCII bytes give their characters
Decode(bytes) ==
    IF \E i \in 1..Len(bytes) : bytes[i] = ByteFF
    THEN [ok |-> FALSE, text |-> <<>>]
    ELSE [ok |-> TRUE, text |-> bytes]

\* payloads the broker may deliver: the three commands, a lower-case
\* variant, integers inside and outside 0..100, a non-integer, and bytes
\* that are not text
Payloads ==
    { OPEN, CLOSE, STOP, <<"o", "p", "e", "n">>,
      <<"4", "0">>, <<"1", "5", "0">>, <<"-", "1", "0">>, <<"4", ".", "5">>,
      <<ByteFF>> }

Messages == [topic : Topics, payload : Payloads]

\* the message is one of the three commands of the set topic
IsCommand(m) == m.topic = "set" /\ m.payload \in {OPEN, CLOSE, STOP}

(* ------------------------------- state -------------------------------- *)

VARIABLES
    time_from_open_to_close, \* config[CONF_TIME_FROM_OPEN_TO_CLOSE], seconds
    start_code,              \* the value NextCodeEntity was constructed with
    attr_native_value,       \* NextCodeEntity._attr_native_value
    code_file,               \* text of the code file
    current_position,        \* NiceBlindController.current_position
    single_button_pressed,   \* NiceBlindController.single_button_pressed
    startup_time,            \* <<>> while the attribute is not assigned, else <<t>>
    now,                     \* time.time(), seconds
    state_topic,             \* last payload published on <base>/state
    position_topic,          \* last payload published on <base>/position
    pc,                      \* position of each thread
    call,                    \* locals of the blind method each thread executes
    sp,                      \* locals of set_position on the MQTT thread
    cmd,                     \* the message the MQTT thread handles, and its outcome
    air,                     \* frames handed to rf_device.tx_code, in order
    burst_seq,               \* number of _send_repeated calls started
    tx                       \* locals of one RFDevice.tx_code call

vars ==
    <<time_from_open_to_close, start_code, attr_native_value, code_file,
      current_position, single_button_pressed, startup_time, now,
      state_topic, position_topic, pc, call, sp, cmd, air, burst_seq, tx>>

Threads == {"main", "mqtt"}

NoCall ==
    [fn |-> "none", no_change_position |-> FALSE, button_id |-> 0,
     code |-> 0, repeat |-> 0, bid |-> 0, ret |-> "none"]

NoSp == [position |-> 0, thingy_time |-> 0, time_to_execute |-> 0]

NoCmd ==
    [topic |-> "none", payload |-> <<>>, outcome |-> "none",
     pressed0 |-> FALSE, pos0 |-> 0, burst0 |-> 0]

(* --------------------------- pure helpers ----------------------------- *)

\* NiceBlindController.__init__: the code the entity starts from
LoadCode(text) ==
    IF text # <<>> THEN IntParse(text).val ELSE DefaultStartCode

\* variant: __init__ assigns a startup time
StartupTimeAssigned == <<0>>

\* self.startup_time : float  -- an annotation, no assignment
StartupTimeAfterInit == <<>>

\* variant: the counter advances once per repeat frame pair
IncreasedTwice(v) == v + 2

\* NextCodeEntity.increase: the new in-memory value
Increased(v) == v + 1

\* variant: the two extremes named the other way round
PublishedStateSwapped(p) ==
    IF p = 100 THEN "open"
    ELSE IF p = 0 THEN "closed"
    ELSE "partially_open"

\* _publish_state: the state string of a position
PublishedState(p) ==
    IF p = 100 THEN "closed"
    ELSE IF p = 0 THEN "open"
    ELSE "partially_open"

\* variant: stop_blind sends the button of close_blind
ButtonOfNoStop(fn) ==
    IF fn = "open_blind" THEN BUTTON_ID_OPEN ELSE BUTTON_ID_CLOSE

\* button of each blind method
ButtonOf(fn) ==
    CASE fn = "close_blind" -> BUTTON_ID_CLOSE
      [] fn = "open_blind" -> BUTTON_ID_OPEN
      [] fn = "stop_blind" -> BUTTON_ID_STOP

\* variant: no_change_position is not honoured
PositionOnEntryAlways(fn, no_change_position, cur) ==
    IF fn = "close_blind" THEN 100
    ELSE IF fn = "open_blind" THEN 0
    ELSE cur

\* first statement of close_blind / open_blind; stop_blind has none
PositionOnEntry(fn, no_change_position, cur) ==
    IF fn = "close_blind" /\ ~no_change_position THEN 100
    ELSE IF fn = "open_blind" /\ ~no_change_position THEN 0
    ELSE cur

\* last statement of close_blind / open_blind / stop_blind
PressedAfterButton(fn) == TRUE

\* variant: set_position never makes the reference move
NeverReference(pressed) == FALSE

\* set_position: whether a reference close_blind() comes first
NeedsReference(pressed) == pressed

\* set_position: direction of the estimated move
DirectionOf(position, cur) ==
    IF position > cur THEN "close_blind" ELSE "open_blind"

\* set_position: delta * thingy_time, i.e. time_to_execute in 1/100 s
TimeToExecute(position, cur, thingy_time) ==
    (IF cur - position < 0 THEN position - cur ELSE cur - position) * thingy_time

\* the startup guard of _on_mqtt_message
BootingAfter(t, started, thingy_time) ==
    (t - started > thingy_time) /\ thingy_time > 0

Booting(t, started, thingy_time) == (t - started < thingy_time) /\ thingy_time > 0

\* is_position_enabled = thingy_time > 0
PositionAlwaysEnabled(thingy_time) == TRUE

PositionEnabled(thingy_time) == thingy_time > 0

\* an exception leaving thread t: start() failing ends the process, a
\* callback failing ends the MQTT loop thread
Raise(t) ==
    IF t = "main" THEN [main |-> "failed", mqtt |-> "dead"]
    ELSE [pc EXCEPT !["mqtt"] = "dead"]

\* thread t calls fn(no_change_position) and continues at ret afterwards
Enter(t, fn, no_change_position, ret) ==
    /\ pc' = [pc EXCEPT ![t] = IF fn = "stop_blind" THEN "blind_arg" ELSE "blind_pos"]
    /\ call' = [call EXCEPT ![t] =
                  [fn |-> fn, no_change_position |-> no_change_position,
                   button_id |-> ButtonOf(fn), code |-> 0, repeat |-> 0,
                   bid |-> 0, ret |-> ret]]

\* the MQTT loop thread as start() launches it
Launched(p) == [p EXCEPT !["mqtt"] = "connecting"]

(* ------------------------------- Init --------------------------------- *)

\* the transition time a deployment may configure besides 0
MaxTransitionTime == 1

\* a code left in the code file by an earlier run
StoredCode == 41

InitialCodeFiles == {<<>>, Str(StoredCode)}

InitController ==
    /\ time_from_open_to_close \in {0, MaxTransitionTime}
    /\ code_file \in InitialCodeFiles
    /\ start_code = LoadCode(code_file)
    /\ attr_native_value = start_code
    /\ current_position = InitialPosition
    /\ single_button_pressed = FALSE
    /\ startup_time = StartupTimeAfterInit
    /\ now = 0
    /\ state_topic = ""
    /\ position_topic = <<>>
    /\ pc = [main |-> "start", mqtt |-> "off"]
    /\ call = [t \in Threads |-> NoCall]
    /\ sp = NoSp
    /\ cmd = NoCmd
    /\ air = <<>>
    /\ burst_seq = 0

\* the controller before start(); no tx_code call is followed
Init == InitController /\ tx = NoTx

(* ------------------------- start(), main thread ----------------------- *)

\* start(): connect, launch the MQTT loop thread, call close_blind()
Start ==
    /\ pc["main"] = "start"
    /\ call' = [call EXCEPT !["main"] =
                  [fn |-> "close_blind", no_change_position |-> FALSE,
                   button_id |-> ButtonOf("close_blind"), code |-> 0,
                   repeat |-> 0, bid |-> 0, ret |-> "set_startup_time"]]
    /\ pc' = Launched([pc EXCEPT !["main"] = "blind_pos"])
    /\ UNCHANGED <<tx, time_from_open_to_close, start_code, attr_native_value,
                   code_file, current_position, single_button_pressed,
                   startup_time, now, state_topic, position_topic, sp, cmd,
                   air, burst_seq>>

\* start(): self.startup_time = time.time()
SetStartupTime ==
    /\ pc["main"] = "set_startup_time"
    /\ startup_time' = <<now>>
    /\ pc' = [pc EXCEPT !["main"] = "running"]
    /\ UNCHANGED <<tx, time_from_open_to_close, start_code, attr_native_value,
                   code_file, current_position, single_button_pressed, now,
                   state_topic, position_topic, call, sp, cmd, air, burst_seq>>

\* the clock; it is followed only while the startup guard can still read it
Tick ==
    /\ startup_time # <<>>
    /\ now - startup_time[1] < time_from_open_to_close
    /\ now' = now + 1
    /\ UNCHANGED <<tx, time_from_open_to_close, start_code, attr_native_value,
                   code_file, current_position, single_button_pressed,
                   startup_time, state_topic, position_topic, pc, call, sp,
                   cmd, air, burst_seq>>

(* ------------- close_blind / open_blind / stop_blind, any thread ------ *)

\* if not no_change_position: self.current_position = 100 (or 0)
BlindPos(t) ==
    /\ pc[t] = "blind_pos"
    /\ current_position' =
          PositionOnEntry(call[t].fn, call[t].no_change_position, current_position)
    /\ pc' = [pc EXCEPT ![t] = "blind_arg"]
    /\ UNCHANGED <<tx, time_from_open_to_close, start_code, attr_native_value,
                   code_file, single_button_pressed, startup_time, now,
                   state_topic, position_topic, call, sp, cmd, air, burst_seq>>

\* the argument self.next_code_entity._attr_native_value is read and
\* _send_repeated is entered
BlindArg(t) ==
    /\ pc[t] = "blind_arg"
    /\ burst_seq' = burst_seq + 1
    /\ call' = [call EXCEPT ![t].code = attr_native_value,
                            ![t].repeat = FirstRepeat,
                            ![t].bid = burst_seq + 1]
    /\ pc' = [pc EXCEPT ![t] = "tx"]
    /\ UNCHANGED <<tx, time_from_open_to_close, start_code, attr_native_value,
                   code_file, current_position, single_button_pressed,
                   startup_time, now, state_topic, position_topic, sp, cmd, air>>

\* variant: every frame is encoded with the first repeat index
FrameFirstRepeat(t, ok) ==
    [bid |-> call[t].bid, thread |-> t, button_id |-> call[t].button_id,
     code |-> call[t].code, repeat |-> FirstRepeat, ok |-> ok]

\* the frame _nice_flor_s_encode builds in this iteration, as the driver
\* gets it; ok tells whether tx_code returned
Frame(t, ok) ==
    [bid |-> call[t].bid, thread |-> t, button_id |-> call[t].button_id,
     code |-> call[t].code, repeat |-> call[t].repeat, ok |-> ok]

\* one iteration of the loop of _send_repeated: rf_device.tx_code returns
TxFrame(t) ==
    /\ pc[t] = "tx"
    /\ air' = Append(air, Frame(t, TRUE))
    /\ call' = [call EXCEPT ![t].repeat = @ + 1]
    /\ pc' = [pc EXCEPT ![t] =
                 IF call[t].repeat + 1 = RepeatStop THEN "blind_publish" ELSE "tx"]
    /\ UNCHANGED <<tx, time_from_open_to_close, start_code, attr_native_value,
                   code_file, current_position, single_button_pressed,
                   startup_time, now, state_topic, position_topic, sp, cmd,
                   burst_seq>>

\* one iteration of the loop of _send_repeated: the driver raises, nothing
\* on the way up catches it
TxFrameFails(t) ==
    /\ pc[t] = "tx"
    /\ air' = Append(air, Frame(t, FALSE))
    /\ pc' = Raise(t)
    /\ cmd' = IF t = "mqtt" THEN [cmd EXCEPT !.outcome = "aborted"] ELSE cmd
    /\ UNCHANGED <<tx, time_from_open_to_close, start_code, attr_native_value,
                   code_file, current_position, single_button_pressed,
                   startup_time, now, state_topic, position_topic, call, sp,
                   burst_seq>>

\* self._publish_state()
Publish ==
    /\ state_topic' = PublishedState(current_position)
    /\ position_topic' = Str(current_position)

BlindPublish(t) ==
    /\ pc[t] = "blind_publish"
    /\ Publish
    /\ pc' = [pc EXCEPT ![t] = "increase"]
    /\ UNCHANGED <<tx, time_from_open_to_close, start_code, attr_native_value,
                   code_file, current_position, single_button_pressed,
                   startup_time, now, call, sp, cmd, air, burst_seq>>

\* increase(): self._attr_native_value = self._attr_native_value + 1
Increase(t) ==
    /\ pc[t] = "increase"
    /\ attr_native_value' = Increased(attr_native_value)
    /\ pc' = [pc EXCEPT ![t] = "save"]
    /\ UNCHANGED <<tx, time_from_open_to_close, start_code, code_file,
                   current_position, single_button_pressed, startup_time, now,
                   state_topic, position_topic, call, sp, cmd, air, burst_seq>>

\* _save_to_config: the text the code file holds afterwards.  open(.., "w")
\* truncates and write() stores str(value); when open() raises the file is
\* left as it was, when write() raises it is left truncated
Saved(outcome, old, value) ==
    CASE outcome = "written" -> Str(value)
      [] outcome = "open_failed" -> old
      [] outcome = "write_failed" -> <<>>

\* _save_to_config, the write succeeds
Save(t) ==
    /\ pc[t] = "save"
    /\ code_file' = Saved("written", code_file, attr_native_value)
    /\ pc' = [pc EXCEPT ![t] = "blind_flag"]
    /\ UNCHANGED <<tx, time_from_open_to_close, start_code, attr_native_value,
                   current_position, single_button_pressed, startup_time, now,
                   state_topic, position_topic, call, sp, cmd, air, burst_seq>>

\* variant: the exception of a failed write leaves increase()
SaveFailsRaises(t) ==
    /\ pc[t] = "save"
    /\ \E outcome \in {"open_failed", "write_failed"} :
          code_file' = Saved(outcome, code_file, attr_native_value)
    /\ pc' = Raise(t)
    /\ UNCHANGED <<tx, time_from_open_to_close, start_code, attr_native_value,
                   current_position, single_button_pressed, startup_time, now,
                   state_topic, position_topic, call, sp, cmd, air, burst_seq>>

\* _save_to_config, open() or write() raises: logged and swallowed
SaveFails(t) ==
    /\ pc[t] = "save"
    /\ \E outcome \in {"open_failed", "write_failed"} :
          code_file' = Saved(outcome, code_file, attr_native_value)
    /\ pc' = [pc EXCEPT ![t] = "blind_flag"]
    /\ UNCHANGED <<tx, time_from_open_to_close, start_code, attr_native_value,
                   current_position, single_button_pressed, startup_time, now,
                   state_topic, position_topic, call, sp, cmd, air, burst_seq>>

\* self.single_button_pressed = True, and the method returns
BlindFlag(t) ==
    /\ pc[t] = "blind_flag"
    /\ single_button_pressed' = PressedAfterButton(call[t].fn)
    /\ pc' = [pc EXCEPT ![t] = call[t].ret]
    /\ call' = [call EXCEPT ![t] = NoCall]
    /\ cmd' = IF call[t].ret = "idle" THEN [cmd EXCEPT !.outcome = "done"] ELSE cmd
    /\ UNCHANGED <<tx, time_from_open_to_close, start_code, attr_native_value,
                   code_file, current_position, startup_time, now, state_topic,
                   position_topic, sp, air, burst_seq>>

(* ----------------------- MQTT loop thread ------------------------------ *)

\* _on_mqtt_connect: subscribe, publish discovery and state (reason_code 0),
\* or log the failure; also runs on every reconnect
OnMqttConnect ==
    /\ pc["mqtt"] \in {"connecting", "idle"}
    /\ \E reason_code \in {0, 1} :
          IF reason_code = 0
          THEN /\ Publish
               /\ pc' = [pc EXCEPT !["mqtt"] = "idle"]
          ELSE UNCHANGED <<state_topic, position_topic, pc>>
    /\ UNCHANGED <<tx, time_from_open_to_close, start_code, attr_native_value,
                   code_file, current_position, single_button_pressed,
                   startup_time, now, call, sp, cmd, air, burst_seq>>

Received(m) ==
    [topic |-> m.topic, payload |-> m.payload, outcome |-> "running",
     pressed0 |-> single_button_pressed, pos0 |-> current_position,
     burst0 |-> burst_seq]

\* _on_mqtt_message up to the call it dispatches to
OnMqttMessage(m) ==
    /\ pc["mqtt"] = "idle"
    /\ burst_seq < MaxBursts
    /\ LET thingy_time == time_from_open_to_close
           r == Received(m)
           return(outcome) ==
               /\ cmd' = [r EXCEPT !.outcome = outcome]
               /\ UNCHANGED <<pc, call, sp>>
           payload == Decode(m.payload)
       IN  IF ~payload.ok
           THEN \* UnicodeDecodeError, raised outside the try of set_position
                /\ cmd' = [r EXCEPT !.outcome = "undecodable"]
                /\ pc' = Raise("mqtt")
                /\ UNCHANGED <<call, sp>>
           ELSE IF startup_time = <<>>
           THEN \* AttributeError: self.startup_time was never assigned
                /\ cmd' = [r EXCEPT !.outcome = "error"]
                /\ pc' = Raise("mqtt")
                /\ UNCHANGED <<call, sp>>
           ELSE IF Booting(now, startup_time[1], thingy_time)
           THEN return("booting")
           ELSE IF m.topic = "set"
           THEN IF payload.text = OPEN
                THEN cmd' = r /\ Enter("mqtt", "open_blind", FALSE, "idle")
                              /\ UNCHANGED sp
                ELSE IF payload.text = CLOSE
                THEN cmd' = r /\ Enter("mqtt", "close_blind", FALSE, "idle")
                              /\ UNCHANGED sp
                ELSE IF payload.text = STOP
                THEN cmd' = r /\ Enter("mqtt", "stop_blind", FALSE, "idle")
                              /\ UNCHANGED sp
                ELSE return("unknown")
           ELSE IF ~PositionEnabled(thingy_time)
           THEN return("disabled")
           ELSE IF ~IntParse(payload.text).ok
           THEN return("invalid")
           ELSE /\ cmd' = r
                /\ sp' = [position |-> IntParse(payload.text).val,
                          thingy_time |-> thingy_time, time_to_execute |-> 0]
                /\ pc' = [pc EXCEPT !["mqtt"] = "sp_check"]
                /\ UNCHANGED call
    /\ UNCHANGED <<tx, time_from_open_to_close, start_code, attr_native_value,
                   code_file, current_position, single_button_pressed,
                   startup_time, now, state_topic, position_topic, air,
                   burst_seq>>

(* ------------------------------ set_position -------------------------- *)

\* if self.single_button_pressed: self.close_blind()
SpCheck ==
    /\ pc["mqtt"] = "sp_check"
    /\ IF NeedsReference(single_button_pressed)
       THEN Enter("mqtt", "close_blind", FALSE, "sp_delta")
       ELSE pc' = [pc EXCEPT !["mqtt"] = "sp_delta"] /\ UNCHANGED call
    /\ UNCHANGED <<tx, time_from_open_to_close, start_code, attr_native_value,
                   code_file, current_position, single_button_pressed,
                   startup_time, now, state_topic, position_topic, sp, cmd,
                   air, burst_seq>>

\* delta, time_to_execute, and the call of the direction burst
SpDelta ==
    /\ pc["mqtt"] = "sp_delta"
    /\ sp' = [sp EXCEPT !.time_to_execute =
                 TimeToExecute(sp.position, current_position, sp.thingy_time)]
    /\ Enter("mqtt", DirectionOf(sp.position, current_position), TRUE, "sp_sleep")
    /\ UNCHANGED <<tx, time_from_open_to_close, start_code, attr_native_value,
                   code_file, current_position, single_button_pressed,
                   startup_time, now, state_topic, position_topic, cmd, air,
                   burst_seq>>

\* time.sleep(time_to_execute), then the call of stop_blind()
SpSleep ==
    /\ pc["mqtt"] = "sp_sleep"
    /\ Enter("mqtt", "stop_blind", FALSE, "sp_commit")
    /\ UNCHANGED <<tx, time_from_open_to_close, start_code, attr_native_value,
                   code_file, current_position, single_button_pressed,
                   startup_time, now, state_topic, position_topic, sp, cmd,
                   air, burst_seq>>

\* self.current_position = position
SpCommit ==
    /\ pc["mqtt"] = "sp_commit"
    /\ current_position' = sp.position
    /\ pc' = [pc EXCEPT !["mqtt"] = "sp_publish"]
    /\ UNCHANGED <<tx, time_from_open_to_close, start_code, attr_native_value,
                   code_file, single_button_pressed, startup_time, now,
                   state_topic, position_topic, call, sp, cmd, air, burst_seq>>

\* self._publish_state()
SpPublish ==
    /\ pc["mqtt"] = "sp_publish"
    /\ Publish
    /\ pc' = [pc EXCEPT !["mqtt"] = "sp_flag"]
    /\ UNCHANGED <<tx, time_from_open_to_close, start_code, attr_native_value,
                   code_file, current_position, single_button_pressed,
                   startup_time, now, call, sp, cmd, air, burst_seq>>

\* self.single_button_pressed = False, and the handler returns
SpFlag ==
    /\ pc["mqtt"] = "sp_flag"
    /\ single_button_pressed' = FALSE
    /\ pc' = [pc EXCEPT !["mqtt"] = "idle"]
    /\ sp' = NoSp
    /\ cmd' = [cmd EXCEPT !.outcome = "done"]
    /\ UNCHANGED <<tx, time_from_open_to_close, start_code, attr_native_value,
                   code_file, current_position, startup_time, now, state_topic,
                   position_topic, call, air, burst_seq>>

(* ------------------------------ specification ------------------------- *)

Next ==
    \/ Start
    \/ SetStartupTime
    \/ Tick
    \/ \E t \in Threads : BlindPos(t)
    \/ \E t \in Threads : BlindArg(t)
    \/ \E t \in Threads : TxFrame(t)
    \/ \E t \in Threads : TxFrameFails(t)
    \/ \E t \in Threads : BlindPublish(t)
    \/ \E t \in Threads : Increase(t)
    \/ \E t \in Threads : Save(t)
    \/ \E t \in Threads : BlindFlag(t)
    \/ OnMqttConnect
    \/ \E m \in Messages : OnMqttMessage(m)
    \/ SpCheck
    \/ SpDelta
    \/ SpSleep
    \/ SpCommit
    \/ SpPublish
    \/ SpFlag

\* the controller with a code file that every write reaches
Spec == Init /\ [][Next]_vars

\* the controller with a code file whose writes may fail
NextStore == Next \/ \E t \in Threads : SaveFails(t)

SpecStore == Init /\ [][NextStore]_vars

(* --------------------------- crash and restart ------------------------ *)

\* the crashes followed
MaxCrashes == 1

\* the runs of the process that have sent a frame: each run sends its first
\* frame from the main thread, in the close_blind() of start()
RunsOnAir ==
    Cardinality({i \in DOMAIN air :
                    air[i].thread = "main" /\ air[i].repeat = FirstRepeat})

\* The process is killed at any point after start() began and is started
\* again (main, lines 377-396): __init__ builds the controller anew and
\* loads the code from the code file; the file and the frames already on
\* the air are what they were.
Crash ==
    /\ pc["main"] # "start"
    /\ burst_seq < MaxBursts
    /\ RunsOnAir <= MaxCrashes
    /\ start_code' = LoadCode(code_file)
    /\ attr_native_value' = LoadCode(code_file)
    /\ current_position' = InitialPosition
    /\ single_button_pressed' = FALSE
    /\ startup_time' = StartupTimeAfterInit
    /\ now' = 0
    /\ state_topic' = ""
    /\ position_topic' = <<>>
    /\ pc' = [main |-> "start", mqtt |-> "off"]
    /\ call' = [t \in Threads |-> NoCall]
    /\ sp' = NoSp
    /\ cmd' = NoCmd
    /\ UNCHANGED <<tx, time_from_open_to_close, code_file, air, burst_seq>>

\* the messages of the crash scenario: the three commands
Commands == {m \in Messages : IsCommand(m)}

\* the steps of the startup move and of the three commands with a driver
\* that does not fail, and the crash
NextCrash ==
    \/ Start
    \/ SetStartupTime
    \/ Tick
    \/ \E t \in Threads : BlindPos(t)
    \/ \E t \in Threads : BlindArg(t)
    \/ \E t \in Threads : TxFrame(t)
    \/ \E t \in Threads : BlindPublish(t)
    \/ \E t \in Threads : Increase(t)
    \/ \E t \in Threads : Save(t)
    \/ \E t \in Threads : BlindFlag(t)
    \/ OnMqttConnect
    \/ \E m \in Commands : OnMqttMessage(m)
    \/ Crash

\* the controller with a driver and writes that succeed, and a process that
\* may be killed and restarted
SpecCrash == Init /\ [][NextCrash]_vars

(* --------------------------- RFDevice.tx_code ------------------------- *)

controller ==
    <<time_from_open_to_close, start_code, attr_native_value, code_file,
      current_position, single_button_pressed, startup_time, now,
      state_topic, position_topic, pc, call, sp, cmd, air, burst_seq>>

\* tx_code(code) is called
InitTx ==
    /\ InitController
    /\ \E code \in TxCodes : tx = [NoTx EXCEPT !.pc = "sync", !.code = code]

\* wf = []; wf.extend(self.tx_sync()); rawcode = format(code, ...)[2:]
TxCodeSync ==
    /\ tx.pc = "sync"
    /\ tx' = [tx EXCEPT !.wf = tx_sync,
                        !.rawcode = DropPrefix(FormatBin(tx.code, TX_LENGTH)),
                        !.bit = 0, !.pc = "bits"]
    /\ UNCHANGED controller

\* one pass of the loop over range(0, tx_length); rawcode[bit] raises
\* IndexError past the end of the string
TxCodeBit ==
    /\ tx.pc = "bits" /\ tx.bit < TX_LENGTH
    /\ IF tx.bit + 1 > Len(tx.rawcode)
       THEN tx' = [tx EXCEPT !.pc = "raised"]
       ELSE tx' = [tx EXCEPT
                     !.wf = @ \o (IF tx.rawcode[tx.bit + 1] = "1"
                                  THEN tx_l0 ELSE tx_l1),
                     !.bit = @ + 1]
    /\ UNCHANGED controller

\* wf.extend(self.tx_sync()); wf.extend(self.tx_gap())
TxCodeTail ==
    /\ tx.pc = "bits" /\ tx.bit = TX_LENGTH
    /\ tx' = [tx EXCEPT !.wf = @ \o tx_sync \o tx_gap, !.pc = "built"]
    /\ UNCHANGED controller

\* wave_add_generic(wf), wave_create, wave_send_once, wait, wave_delete
TxCodeSend ==
    /\ tx.pc = "built"
    /\ tx' = [tx EXCEPT !.pc = "sent"]
    /\ UNCHANGED controller

NextTx == TxCodeSync \/ TxCodeBit \/ TxCodeTail \/ TxCodeSend

\* one call of tx_code for each frame of TxCodes
SpecTx == InitTx /\ [][NextTx]_vars

(* ------------------------- reading the frame log ---------------------- *)

Bursts == 1..burst_seq

\* the frames of burst b that the driver accepted
SentOf(b) == {i \in DOMAIN air : air[i].bid = b /\ air[i].ok}

\* burst b was transmitted in full
FullBurst(b) == Cardinality(SentOf(b)) = RepeatStop - FirstRepeat

\* burst b was transmitted in full with this button
FullBurstOf(b, button_id) ==
    LET sent == SentOf(b)
    IN  /\ Cardinality(sent) = RepeatStop - FirstRepeat
        /\ \A i \in sent : air[i].button_id = button_id

\* the positions of the log where a burst begins
BurstStarts == {i \in DOMAIN air : i = 1 \/ air[i - 1].bid # air[i].bid}

\* thread t is between reading the code (inclusive) and the end of increase()
InCodeSection(t) == pc[t] \in {"tx", "blind_publish", "increase", "save"}

\* burst b has been followed by its increase()
Completed(b) ==
    /\ FullBurst(b)
    /\ \A t \in Threads :
          call[t].bid = b => pc[t] \notin {"tx", "blind_publish", "increase"}

CompletedBursts == {b \in Bursts : Completed(b)}

(* -------------------------------- C1 ---------------------------------- *)

\* C1: the section read-code / transmit six frames / increase() of one
\* command never overlaps that of another command: the two threads are never
\* both inside it, once another burst's frame follows a frame of a burst no
\* further frame of that burst follows, and no two bursts read the same
\* rolling code.
C1_ExclusiveBursts ==
    /\ ~(InCodeSection("main") /\ InCodeSection("mqtt"))
    /\ \A i \in BurstStarts :
          \A j \in DOMAIN air : j < i - 1 => air[j].bid # air[i].bid
    /\ \A i \in BurstStarts :
          i > 1 => air[i - 1].bid < air[i].bid
    /\ \A i, j \in BurstStarts : i # j => air[i].code # air[j].code

\* a command burst of the MQTT thread is on the air after the startup burst
\* of the main thread
C1_Witness ==
    \E b, c \in Bursts :
        /\ FullBurst(b) /\ FullBurst(c)
        /\ \A i \in SentOf(b) : air[i].thread = "main"
        /\ \A i \in SentOf(c) : air[i].thread = "mqtt"

(* -------------------------------- C2 ---------------------------------- *)

\* C2: the rolling code advances by exactly 1 per completed burst: every
\* burst is sent with start_code plus the number of bursts completed before
\* it, and the in-memory code is start_code plus the number of completed
\* bursts.
C2_OnePerBurst ==
    LET done == CompletedBursts
    IN  /\ \A i \in DOMAIN air :
              air[i].code =
                  start_code + Cardinality({c \in done : c < air[i].bid})
        /\ attr_native_value = start_code + Cardinality(done)

\* a set_position with its reference, direction and STOP bursts has
\* completed after the startup burst
C2_Witness ==
    /\ cmd.topic = "set_position" /\ cmd.outcome = "done"
    /\ pc["mqtt"] = "idle"
    /\ Cardinality(CompletedBursts) >= 4

(* -------------------------------- C3 ---------------------------------- *)

\* C3: when the driver fails on a frame of a burst, no later frame of that
\* burst is transmitted and the rolling code is still advanced by 1 past the
\* code of the failed burst.
C3_FailedBurstAdvances ==
    \A i \in DOMAIN air :
        ~air[i].ok =>
            /\ \A j \in DOMAIN air : j > i => air[j].bid # air[i].bid
            /\ attr_native_value = air[i].code + 1

(* ----------------------- reading the handled command ------------------ *)

\* the handler of the current message got as far as calling a blind method
\* or set_position
Dispatched == cmd.outcome \in {"running", "done", "aborted"}

\* the handler of the current message has returned normally
Done == cmd.outcome = "done" /\ pc["mqtt"] = "idle"

DirectCommand(payload) ==
    cmd.topic = "set" /\ cmd.payload = payload /\ Dispatched

SetPositionRun == cmd.topic = "set_position" /\ Dispatched

Target == IntParse(cmd.payload).val

Distance(a, b) == IF a < b THEN b - a ELSE a - b

(* -------------------------------- C4 ---------------------------------- *)

\* C4: a set_position(target) that starts with a known position different
\* from target sends exactly one direction burst (CLOSE when target is above
\* the position, OPEN when below) and leaves the position alone, then
\* sleeps for the travel time, then sends exactly one STOP burst, and only
\* after the STOP burst is the position set to target and marked known.
C4_KnownSetPosition ==
    (SetPositionRun /\ ~cmd.pressed0 /\ Target # cmd.pos0) =>
        LET d == cmd.burst0 + 1
            s == cmd.burst0 + 2
            direction ==
                IF Target > cmd.pos0 THEN BUTTON_ID_CLOSE ELSE BUTTON_ID_OPEN
        IN  /\ burst_seq <= s
            /\ \A i \in DOMAIN air :
                  /\ air[i].bid = d => air[i].button_id = direction
                  /\ air[i].bid = s =>
                        air[i].button_id = BUTTON_ID_STOP /\ FullBurst(d)
            /\ ~FullBurst(s) => current_position = cmd.pos0
            /\ pc["mqtt"] = "sp_sleep" =>
                  /\ FullBurst(d) /\ burst_seq = d
                  /\ sp.time_to_execute =
                        Distance(cmd.pos0, Target) * time_from_open_to_close
            /\ Done =>
                  /\ burst_seq = s
                  /\ FullBurstOf(d, direction)
                  /\ FullBurstOf(s, BUTTON_ID_STOP)
                  /\ current_position = Target
                  /\ ~single_button_pressed

\* such a set_position has returned, with a target above the position
C4_Witness ==
    /\ SetPositionRun /\ ~cmd.pressed0 /\ Target > cmd.pos0 /\ Done
    /\ FullBurstOf(cmd.burst0 + 1, BUTTON_ID_CLOSE)

(* -------------------------------- C5 ---------------------------------- *)

\* C5: a set_position(target) that starts with the position not known first
\* sends a full reference CLOSE burst with the position set to 100, and only
\* then computes the travel time (from 100) and sends the direction burst
\* and the STOP burst.
C5_ReferenceFirst ==
    (SetPositionRun /\ cmd.pressed0) =>
        LET r == cmd.burst0 + 1
            d == cmd.burst0 + 2
            s == cmd.burst0 + 3
            direction ==
                IF Target > 100 THEN BUTTON_ID_CLOSE ELSE BUTTON_ID_OPEN
        IN  /\ burst_seq <= s
            /\ \A i \in DOMAIN air :
                  /\ air[i].bid = r =>
                        air[i].button_id = BUTTON_ID_CLOSE
                  /\ air[i].bid = d =>
                        /\ air[i].button_id = direction
                        /\ FullBurstOf(r, BUTTON_ID_CLOSE)
                  /\ air[i].bid = s =>
                        air[i].button_id = BUTTON_ID_STOP /\ FullBurst(d)
            /\ (burst_seq = r \/ pc["mqtt"] = "sp_delta") =>
                  current_position = 100
            /\ pc["mqtt"] = "sp_delta" => FullBurstOf(r, BUTTON_ID_CLOSE)
            /\ pc["mqtt"] = "sp_sleep" =>
                  sp.time_to_execute =
                      Distance(100, Target) * time_from_open_to_close
            /\ Done =>
                  /\ burst_seq = s
                  /\ FullBurstOf(r, BUTTON_ID_CLOSE)
                  /\ FullBurstOf(d, direction)
                  /\ FullBurstOf(s, BUTTON_ID_STOP)

\* such a set_position has returned
C5_Witness ==
    /\ SetPositionRun /\ cmd.pressed0 /\ Done
    /\ FullBurstOf(cmd.burst0 + 1, BUTTON_ID_CLOSE)
    /\ FullBurstOf(cmd.burst0 + 3, BUTTON_ID_STOP)

(* -------------------------------- C6 ---------------------------------- *)

\* C6: the position is marked not known after a direct Stop(), and marked
\* known again after a full Open() or Close(), so that a set_position that
\* follows a full Open()/Close() needs no reference move.
C6_KnownAfterFullMove ==
    /\ (DirectCommand(STOP) /\ Done) => NeedsReference(single_button_pressed)
    /\ ((DirectCommand(OPEN) \/ DirectCommand(CLOSE)) /\ Done) =>
           ~NeedsReference(single_button_pressed)

(* -------------------------------- C7 ---------------------------------- *)

\* C7: the tracked position and the published position are integers in
\* 0..100 in every reachable state.
C7_PositionInRange ==
    /\ current_position \in 0..100
    /\ position_topic # <<>> => IntParse(position_topic).val \in 0..100

(* -------------------------------- C8 ---------------------------------- *)

\* the position stop_blind() finds when it is called for the current message
PositionBeforeStop ==
    IF cmd.topic = "set_position" /\ cmd.pressed0 THEN 100 ELSE cmd.pos0

\* C8: stop_blind() sends one full STOP burst, advances the rolling code by
\* 1, publishes the state and leaves the position as it found it, whether
\* called directly or from set_position.
C8_StopEffect ==
    /\ \A t \in Threads :
          call[t].fn = "stop_blind" =>
              /\ current_position = PositionBeforeStop
              /\ \A i \in DOMAIN air :
                    air[i].bid = call[t].bid =>
                        air[i].button_id = BUTTON_ID_STOP
              /\ pc[t] = "blind_flag" =>
                    /\ FullBurstOf(call[t].bid, BUTTON_ID_STOP)
                    /\ attr_native_value = call[t].code + 1
                    /\ state_topic = PublishedState(current_position)
                    /\ position_topic = Str(current_position)
    /\ (DirectCommand(STOP) /\ Done) =>
          /\ burst_seq = cmd.burst0 + 1
          /\ FullBurstOf(burst_seq, BUTTON_ID_STOP)
          /\ \A i \in SentOf(burst_seq) :
                attr_native_value = air[i].code + 1
          /\ current_position = cmd.pos0
          /\ position_topic = Str(cmd.pos0)

\* a direct STOP has returned at an intermediate position
C8_Witness ==
    /\ DirectCommand(STOP) /\ Done
    /\ cmd.pos0 = 40
    /\ FullBurstOf(burst_seq, BUTTON_ID_STOP)

(* -------------------------------- C9 ---------------------------------- *)

StartupMoveDone == pc["main"] = "set_startup_time"

StartedOnly ==
    /\ pc["main"] = "running"
    /\ pc["mqtt"] \in {"connecting", "idle", "dead"}
    /\ \A i \in DOMAIN air : air[i].thread = "main"

\* C10: when start() completes, exactly one reference CLOSE burst has been
\* sent and one code consumed, the position is 100 and marked known, so that
\* the first set_position needs no reference move.
C10_StartupReference ==
    StartedOnly =>
        /\ burst_seq = 1
        /\ FullBurstOf(1, BUTTON_ID_CLOSE)
        /\ attr_native_value = start_code + 1
        /\ current_position = 100
        /\ ~NeedsReference(single_button_pressed)

(* ------------------------------- C11 ---------------------------------- *)

\* the guard interval: fewer than time_from_open_to_close seconds have
\* passed since start() recorded the end of the startup move
InGuardInterval ==
    startup_time # <<>> /\ now - startup_time[1] < time_from_open_to_close

\* the MQTT thread takes a message in this step
Handles == pc["mqtt"] = "idle" /\ cmd' # cmd

\* C11: a message handled during the guard interval is ignored: no frame is
\* sent, the code, the code file, the position, the flag and the published
\* state stay as they were, and a text payload leaves the handler idle; a
\* message handled once the interval is over is not ignored, and OPEN,
\* CLOSE and STOP are dispatched
C11_GuardInterval ==
    [][ (Handles /\ startup_time # <<>>) =>
            IF InGuardInterval
            THEN /\ UNCHANGED <<air, burst_seq, attr_native_value, code_file,
                                current_position, single_button_pressed,
                                state_topic, position_topic, call, sp>>
                 /\ Decode(cmd'.payload).ok =>
                        cmd'.outcome = "booting" /\ UNCHANGED pc
            ELSE /\ cmd'.outcome # "booting"
                 /\ IsCommand(cmd') =>
                        /\ cmd'.outcome = "running"
                        /\ pc'["mqtt"] \in {"blind_pos", "blind_arg"}
      ]_vars

\* OPEN arrived during the guard interval and was ignored
C11_Witness ==
    /\ InGuardInterval
    /\ cmd.outcome = "booting" /\ cmd.topic = "set" /\ cmd.payload = OPEN
    /\ Len(air) = RepeatStop - FirstRepeat

(* ------------------------------- C12 ---------------------------------- *)

\* the payload is the text of an integer
IsInteger(bytes) == Decode(bytes).ok /\ IntParse(Decode(bytes).text).ok

Malformed(m) ==
    \/ m.topic = "set" /\ m.payload \notin {OPEN, CLOSE, STOP}
    \/ m.topic = "set_position" /\ ~IsInteger(m.payload)

\* C12: a malformed message (a payload other than OPEN, CLOSE or STOP on
\* set, a non-integer payload on set_position), handled once start() has
\* returned, sends no frame, leaves the code, the position and the flag as
\* they were, and leaves the handler ready for the next message
C12_MalformedRejected ==
    [][ (Handles /\ startup_time # <<>> /\ Malformed(cmd')) =>
            /\ UNCHANGED <<air, burst_seq, attr_native_value, code_file,
                           current_position, single_button_pressed>>
            /\ pc'["mqtt"] = "idle"
      ]_vars

(* ------------------------------- C13 ---------------------------------- *)

\* the method each command names
MethodOf(payload) ==
    CASE payload = OPEN -> "open_blind"
      [] payload = CLOSE -> "close_blind"
      [] payload = STOP -> "stop_blind"

\* C13: with a transition time of 0 a set_position message starts no
\* burst, advances no code and moves no position, whatever its payload,
\* while OPEN, CLOSE and STOP on set, handled once start() has returned,
\* are dispatched to their method
C13_PositionDisabled ==
    [][ (Handles /\ time_from_open_to_close = 0) =>
            /\ cmd'.topic = "set_position" =>
                   /\ UNCHANGED <<air, burst_seq, attr_native_value, code_file,
                                  current_position, single_button_pressed,
                                  call, sp>>
                   /\ pc'["mqtt"] \in {"idle", "dead"}
            /\ (IsCommand(cmd') /\ startup_time # <<>>) =>
                   /\ cmd'.outcome = "running"
                   /\ call'["mqtt"].fn = MethodOf(cmd'.payload)
                   /\ pc'["mqtt"] \in {"blind_pos", "blind_arg"}
      ]_vars

\* an integer position arrived with a transition time of 0 and was dropped
C13_Witness ==
    /\ time_from_open_to_close = 0
    /\ cmd.topic = "set_position" /\ cmd.payload = <<"4", "0">>
    /\ cmd.outcome = "disabled"
    /\ pc["mqtt"] = "idle"

(* ------------------------------- C14 ---------------------------------- *)

\* C14: whether or not the write reached the code file, increase() leaves
\* the code of the burst plus 1 in memory and returns; each burst uses the
\* code of the burst before it plus 1; and a thread ends only through a
\* driver failure or an exception of the message handler, never through a
\* failed write
C14_FailedWriteCommits ==
    /\ \A t \in Threads :
          pc[t] = "blind_flag" => attr_native_value = call[t].code + 1
    /\ \A i \in BurstStarts : i > 1 => air[i].code = air[i - 1].code + 1
    /\ pc["main"] = "failed" => ~FullBurst(1)
    /\ (pc["mqtt"] = "dead" /\ pc["main"] # "failed") =>
          cmd.outcome \in {"aborted", "error", "undecodable"}

\* the second burst is sent with the start code plus 1 while the code file
\* does not hold that value: the write after the first burst failed
C14_Witness ==
    \E t \in Threads :
        /\ pc[t] = "tx" /\ call[t].repeat > FirstRepeat
        /\ call[t].code = start_code + 1
        /\ code_file # Str(call[t].code)

(* ------------------------------- C15 ---------------------------------- *)

\* thread t leaves _save_to_config in this step
Writes(t) == pc[t] = "save" /\ pc'[t] # "save"

\* C15: whatever happens to a write, the code a later start would load from
\* the file is the one it would have loaded before the write or the code
\* being written
C15_WriteKeepsCode ==
    [][ (\E t \in Threads : Writes(t)) =>
            LoadCode(code_file') \in {LoadCode(code_file), attr_native_value}
      ]_vars

(* ------------------------------- C16 ---------------------------------- *)

\* the frame as 52 binary digits, most significant first
Padded(digits) == Zeros(TX_LENGTH - Len(digits)) \o digits

\* the pulse train of a frame: sync pair, a pair for each of the 52 digits,
\* sync pair, gap
PulseTrain(digits) ==
    LET bits == Padded(digits)
        pair(i) == IF bits[(i + 1) \div 2] = "1" THEN tx_l0 ELSE tx_l1
    IN  tx_sync \o
        [i \in 1..(2 * TX_LENGTH) |-> pair(i)[2 - (i % 2)]] \o
        tx_sync \o tx_gap

\* C16: for every frame, tx_code raises no error, and the waveform it hands
\* to the driver has 109 pulses: the sync pair, the pairs of the 52 digits
\* of the zero-padded frame, the sync pair and the gap
C16_PulseTrain ==
    /\ tx.pc # "raised"
    /\ tx.pc \in {"built", "sent"} =>
          Len(tx.wf) = 109 /\ tx.wf = PulseTrain(tx.code)

(* ------------------------------- C17 ---------------------------------- *)

\* frame i opens a burst
StartsBurst(i) == i = 1 \/ air[i - 1].bid # air[i].bid

\* C17: a burst starts with repeat index 1; every further frame follows a
\* frame the driver completed, in the same thread, with the same code and
\* button and the next repeat index, up to 6; and a burst that no driver
\* failure cut short and that is no longer being sent has six frames
C17_SixFrames ==
    /\ \A i \in DOMAIN air :
          /\ air[i].repeat \in 1..6
          /\ IF StartsBurst(i)
             THEN /\ air[i].repeat = 1
                  /\ (i > 1 /\ air[i - 1].ok) => air[i - 1].repeat = 6
             ELSE /\ air[i - 1].ok
                  /\ air[i].repeat = air[i - 1].repeat + 1
                  /\ air[i].code = air[i - 1].code
                  /\ air[i].button_id = air[i - 1].button_id
                  /\ air[i].thread = air[i - 1].thread
    /\ (air # <<>> /\ air[Len(air)].ok /\ \A t \in Threads : pc[t] # "tx") =>
          air[Len(air)].repeat = 6

\* the startup burst and the burst of an OPEN command, six frames each
C17_Witness ==
    /\ Len(air) = 12
    /\ \A i \in DOMAIN air : air[i].ok
    /\ air[12].button_id = BUTTON_ID_OPEN
    /\ pc["mqtt"] = "blind_publish"

(* ------------------------------- C18 ---------------------------------- *)

\* Every run of the process sends one burst from the main thread, the
\* startup close_blind(), before any other: a burst of the main thread is
\* the first burst after a start.
\* C18: the code of the first burst after a start is greater than the code
\* of every frame transmitted before it, in earlier runs of the process
C18_FreshCodeAfterRestart ==
    \A i \in DOMAIN air :
        (StartsBurst(i) /\ air[i].thread = "main") =>
            \A j \in 1..(i - 1) : air[j].ok => air[j].code < air[i].code

(* ------------------------------- C19 ---------------------------------- *)

\* the extreme an OPEN or CLOSE command moves to
Extreme == IF cmd.payload = OPEN THEN 0 ELSE 100

\* the MQTT thread runs an OPEN or CLOSE command whose burst is not yet
\* fully transmitted or whose code is not yet advanced and stored
BeforeCodeAdvanced ==
    /\ cmd.topic = "set" /\ cmd.payload \in {OPEN, CLOSE}
    /\ cmd.outcome = "running"
    /\ pc["mqtt"] \in {"blind_arg", "tx", "blind_publish", "increase", "save"}

\* C19: until the six frames of an OPEN or CLOSE command are transmitted
\* and its code is advanced and stored, the position is the one the command
\* found and the extreme has not been published for it
C19_StateAfterCode ==
    BeforeCodeAdvanced =>
        /\ current_position = cmd.pos0
        /\ cmd.pos0 # Extreme => position_topic # Str(Extreme)

(* ------------------------------- C20 ---------------------------------- *)

\* C20: a command taken by the handler at any moment after the MQTT thread
\* was launched is ignored by the startup guard or dispatched to its method
\* (where only a driver failure can stop it); the handler raises no error
\* of its own, and unless the driver failed the MQTT thread lives on
C20_HandledWithoutError ==
    IsCommand(cmd) =>
        /\ cmd.outcome \in {"booting", "running", "done", "aborted"}
        /\ (pc["mqtt"] = "dead" /\ pc["main"] # "failed") =>
              cmd.outcome = "aborted"

====
